---- MODULE Spec2Model ----
(***************************************************************************)
(* A model of the manifest core of vsd (src/src/playlist.rs):              *)
(*   - MasterPlaylist::select_streams, step by step (quality resolution,   *)
(*     choice list, scripted / interactive prompt, index mapping);         *)
(*   - MasterPlaylist::sort_streams;                                       *)
(*   - Segment::seg_range / map_range and Segment::seg_url / map_url /     *)
(*     key_url.                                                            *)
(* Option<T> is modelled as a sequence: <<>> is None, <<x>> is Some(x).    *)
(* Vec indices are 0-based as in the source; TLA+ sequences are 1-based.   *)
(***************************************************************************)
EXTENDS Integers, Sequences, FiniteSets, TLC

VARIABLES
    \* ---- select_streams: arguments
    streams,                      \* self.streams
    quality,                      \* quality: Quality
    skip_prompts,
    raw_prompts,
    stdin,                        \* the line the user will type, as comma separated tokens
    \* ---- select_streams: locals
    pc,                           \* position in select_streams
    default_video_stream_index,   \* Option<usize>
    video_streams,
    audio_streams,
    subtitle_streams,
    undefined_streams,
    choices_with_default,
    choices_with_default_ranges,
    printed,                      \* printed[k] = uri of the rendition printed under index k
    input_read,                   \* stdin.read_line / prompt_one has been called
    selected_choices_index,
    video_streams_offset,
    audio_streams_offset,
    subtitle_streams_offset,
    selected_streams,
    selected_subtitle_streams,
    \* ---- sort_streams
    sort_pc,
    sort_input,                   \* self.streams on entry
    prefer_audio_lang,
    prefer_subs_lang,
    sort_output,                  \* self.streams on return
    audio_keys,                   \* the (stream, language_factor, channels, bandwidth) tuples pushed
    subtitle_keys,                \* the (stream, language_factor) tuples pushed
    video_keys,                   \* the (stream, pixels, bandwidth) tuples pushed
    \* ---- Segment
    segment,                      \* the Segment
    baseurl,
    previous_byterange_end,
    seg_op,                       \* the Segment method called last
    seg_result,                   \* what it returned
    \* ---- select_streams: the interactive answer
    answer,                       \* answer.as_list_items(): the positions checked
    \* ---- sort_streams called again on its own output
    resort_output,
    \* ---- MediaPlaylist::extension
    media_playlist,               \* the MediaPlaylist
    ext_pc,
    ext_result,
    \* ---- MediaPlaylist::file_path
    fp_directory,                 \* the argument directory
    fp_ext,                       \* the argument ext
    existing,                     \* the paths that exist on disk
    fp_pc,                        \* position in file_path
    fp_i,                         \* the loop variable i
    fp_path,                      \* the local path
    fp_returned,                  \* the paths returned so far, one per call
    \* ---- seg_range called along a rendition's segments
    chain_segments,
    chain_pos,                    \* segments served so far
    requested                     \* the (start, end) of each range header sent

selVars == <<streams, quality, skip_prompts, raw_prompts, stdin, pc,
             default_video_stream_index, video_streams, audio_streams,
             subtitle_streams, undefined_streams, choices_with_default,
             choices_with_default_ranges, printed, input_read,
             selected_choices_index, video_streams_offset, audio_streams_offset,
             subtitle_streams_offset, selected_streams, selected_subtitle_streams,
             answer>>

sortVars == <<sort_pc, sort_input, prefer_audio_lang, prefer_subs_lang, sort_output,
              audio_keys, subtitle_keys, video_keys, resort_output>>

segVars == <<segment, baseurl, previous_byterange_end, seg_op, seg_result>>

extVars == <<ext_pc, ext_result>>

pathVars == <<fp_directory, fp_ext, existing, fp_pc, fp_i, fp_path, fp_returned>>

nameVars == <<media_playlist, extVars, pathVars>>

chainVars == <<chain_segments, chain_pos, requested>>

vars == <<selVars, sortVars, segVars, nameVars, chainVars>>

\* extension is not called
ExtIdle == ext_pc = "idle" /\ ext_result = <<>>

\* file_path is not called
PathIdle ==
    /\ fp_directory = <<>> /\ fp_ext = <<>> /\ existing = {}
    /\ fp_pc = "idle" /\ fp_i = 0 /\ fp_path = <<>> /\ fp_returned = <<>>

\* extension and file_path are not called
NameIdle == media_playlist = <<>> /\ ExtIdle /\ PathIdle

\* no rendition is being downloaded
ChainIdle == chain_segments = <<>> /\ chain_pos = 0 /\ requested = <<>>

----------------------------------------------------------------------------
(* Bounds *)

MaxVideo == 2
MaxAudio == 2
MaxSubs == 1
MaxUndefined == 1
MaxInputLen == 2
MaxToken == 3
MaxQualityStreams == 3
UsizeModulus == 1073741824

----------------------------------------------------------------------------
(* Option and Vec helpers *)

None == <<>>

Some(x) == <<x>>

IsSome(o) == Len(o) = 1

Unwrap(o) == o[1]

UnwrapOr(o, d) == IF IsSome(o) THEN o[1] ELSE d

\* Vec::remove(i), i 0-based and in bounds
Remove(v, i) == SubSeq(v, 1, i) \o SubSeq(v, i + 2, Len(v))

\* Vec::get-style 0-based access
At(v, i) == v[i + 1]

\* iter().filter(test) on a sequence
Filter(v, Test(_)) == SelectSeq(v, Test)

SeqsUpTo(S, n) == UNION {[1..k -> S] : k \in 0..n}

Indices(n) == [k \in 1..n |-> k]

----------------------------------------------------------------------------
(* Data model *)

MediaType == {"Audio", "Subtitles", "Undefined", "Video"}

\* MediaPlaylist: the fields ranking and selection read; uri identifies the rendition
MediaPlaylist(uri, media_type, resolution, bandwidth, channels, language) ==
    [uri |-> uri, media_type |-> media_type, resolution |-> resolution,
     bandwidth |-> bandwidth, channels |-> channels, language |-> language]

\* a manifest whose k-th rendition has uri k and the k-th attribute record of attrs
MasterPlaylist(attrs) ==
    [k \in 1..Len(attrs) |->
        MediaPlaylist(k, attrs[k].media_type, attrs[k].resolution, attrs[k].bandwidth,
                      attrs[k].channels, attrs[k].language)]

Attr(media_type, resolution, bandwidth, channels, language) ==
    [media_type |-> media_type, resolution |-> resolution, bandwidth |-> bandwidth,
     channels |-> channels, language |-> language]

Plain(media_type) == Attr(media_type, None, None, None, None)

Uris(v) == [k \in 1..Len(v) |-> v[k].uri]

----------------------------------------------------------------------------
(* Quality *)

QualityKinds == {"Lowest", "Highest", "Resolution", "Youtube144p", "Youtube240p",
                 "Youtube360p", "Youtube480p", "Youtube720p", "Youtube1080p",
                 "Youtube2k", "Youtube1440p", "Youtube4k", "Youtube8k"}

Quality(kind, w, h) == [kind |-> kind, w |-> w, h |-> h]

\* the (w, h) each arm of the match hands to has_resolution
TargetResolution(q) ==
    CASE q.kind = "Resolution"   -> <<q.w, q.h>>
      [] q.kind = "Youtube144p"  -> <<256, 144>>
      [] q.kind = "Youtube240p"  -> <<426, 240>>
      [] q.kind = "Youtube360p"  -> <<640, 360>>
      [] q.kind = "Youtube480p"  -> <<854, 480>>
      [] q.kind = "Youtube720p"  -> <<1280, 720>>
      [] q.kind = "Youtube1080p" -> <<1920, 1080>>
      [] q.kind = "Youtube2k"    -> <<2048, 1080>>
      [] q.kind = "Youtube1440p" -> <<2560, 1440>>
      [] q.kind = "Youtube4k"    -> <<3840, 2160>>
      [] q.kind = "Youtube8k"    -> <<7680, 4320>>

\* has_resolution comparing the width only
has_resolution_WidthOnly(stream, w, h) ==
    IF IsSome(stream.resolution)
    THEN w = Unwrap(stream.resolution)[1]
    ELSE FALSE

has_resolution(stream, w, h) ==
    IF IsSome(stream.resolution)
    THEN w = Unwrap(stream.resolution)[1] /\ h = Unwrap(stream.resolution)[2]
    ELSE FALSE

IsVideo(x) == x.media_type = "Video"
IsAudio(x) == x.media_type = "Audio"
IsSubtitles(x) == x.media_type = "Subtitles"
IsUndefined(x) == x.media_type = "Undefined"

\* self.streams.iter().filter(|x| x.media_type == MediaType::Video)
VideoFilter(ss) == Filter(ss, IsVideo)

\* video_streams.find(|x| x.1.has_resolution(w, h)).map(|y| y.0): the scan from
\* position i of the enumerated video renditions
RECURSIVE Find(_, _, _, _)
Find(vs, i, w, h) ==
    IF i >= Len(vs) THEN None
    ELSE IF has_resolution(At(vs, i), w, h) THEN Some(i)
    ELSE Find(vs, i + 1, w, h)

\* what the match on quality evaluates to: it panics, or yields Option<usize>
Resolved(index) == [panic |-> FALSE, index |-> index]

Panicked == [panic |-> TRUE, index |-> None]

\* The outcomes of the match on quality: a set, because count() - 1 on an empty
\* video group overflows usize (a panic with overflow checks, a wrap without).
DefaultVideoStreamIndex(ss, q) ==
    LET vs == VideoFilter(ss)
    IN  CASE q.kind = "Lowest" ->
                IF Len(vs) - 1 < 0
                THEN {Panicked, Resolved(Some((Len(vs) - 1) % UsizeModulus))}
                ELSE {Resolved(Some(Len(vs) - 1))}
          [] q.kind = "Highest" -> {Resolved(Some(0))}
          [] OTHER ->
                {Resolved(Find(vs, 0, TargetResolution(q)[1], TargetResolution(q)[2]))}

----------------------------------------------------------------------------
(* select_streams: the choice list *)

Separator == [sep |-> TRUE, stream |-> 0, selected |-> FALSE]

Choice(stream, selected) == [sep |-> FALSE, stream |-> stream.uri, selected |-> selected]

Range(start, end) == [start |-> start, end |-> end]

Contains(r, i) == r.start <= i /\ i < r.end

Scripted == skip_prompts \/ raw_prompts

\* the video choices with the first one flagged whatever the default index is
VideoChoices_FirstFlagged(vs, d) == [k \in 1..Len(vs) |-> Choice(vs[k], (k - 1) = 0)]

VideoChoices(vs, d) == [k \in 1..Len(vs) |-> Choice(vs[k], (k - 1) = d)]

FirstChoices(v) == [k \in 1..Len(v) |-> Choice(v[k], (k - 1) = 0)]

\* choices_with_default after the three sections were pushed
BuildChoiceList(vs, as, ss, d) ==
    <<Separator>> \o VideoChoices(vs, d) \o <<Separator>> \o FirstChoices(as)
        \o <<Separator>> \o FirstChoices(ss)

\* the ranges with the separator slots counted in every mode
BuildRanges_SeparatorsCounted(nv, na, ns, scripted) ==
    LET len1 == 1 + nv
        len2 == len1 + 1 + na
        len3 == len2 + 1 + ns
        r0 == Range(1, len1)
        r1 == Range(r0.end + 1, len2)
        r2 == Range(r1.end + 1, len3)
    IN  <<r0, r1, r2, Range(0, 0)>>

\* choices_with_default_ranges, from the lengths of choices_with_default at each point
BuildRanges(nv, na, ns, scripted) ==
    LET len1 == 1 + nv
        len2 == len1 + 1 + na
        len3 == len2 + 1 + ns
        r0 == Range(1, len1)
        r1 == IF scripted THEN Range(r0.end, len2 - 1) ELSE Range(r0.end + 1, len2)
        r2 == IF scripted THEN Range(r1.end, len3 - 2) ELSE Range(r1.end + 1, len3)
    IN  <<r0, r1, r2, Range(0, 0)>>

IsChoice(c) == ~c.sep

IsSelected(c) == c.selected

\* input.split(',').filter_map(|x| x.trim().parse::<usize>().ok())
\* a token that parses as usize, and one that does not ("abc", "-1", "1.5", "")
IntToken(n) == [int |-> TRUE, val |-> n]

NonInteger == [int |-> FALSE, val |-> 0]

ParseInput(tokens) ==
    LET IsInt(t) == t.int
        ints == Filter(tokens, IsInt)
    IN  [k \in 1..Len(ints) |-> ints[k].val]

----------------------------------------------------------------------------
(* select_streams: the steps *)

\* the match on quality yields an index or nothing
ResolveDefault ==
    /\ pc = "start"
    /\ \E r \in DefaultVideoStreamIndex(streams, quality) :
            /\ ~r.panic
            /\ default_video_stream_index' = r.index
    /\ pc' = "resolved"
    /\ UNCHANGED <<answer, streams, quality, skip_prompts, raw_prompts, stdin, video_streams,
                   audio_streams, subtitle_streams, undefined_streams,
                   choices_with_default, choices_with_default_ranges, printed,
                   input_read, selected_choices_index, video_streams_offset,
                   audio_streams_offset, subtitle_streams_offset, selected_streams,
                   selected_subtitle_streams>>
    /\ UNCHANGED <<sortVars, segVars, nameVars, chainVars>>

\* count() - 1 overflows in a build with overflow checks
ResolvePanic ==
    /\ pc = "start"
    /\ \E r \in DefaultVideoStreamIndex(streams, quality) : r.panic
    /\ pc' = "panic"
    /\ UNCHANGED <<answer, streams, quality, skip_prompts, raw_prompts, stdin,
                   default_video_stream_index, video_streams,
                   audio_streams, subtitle_streams, undefined_streams,
                   choices_with_default, choices_with_default_ranges, printed,
                   input_read, selected_choices_index, video_streams_offset,
                   audio_streams_offset, subtitle_streams_offset, selected_streams,
                   selected_subtitle_streams>>
    /\ UNCHANGED <<sortVars, segVars, nameVars, chainVars>>

\* bail!("playlist doesn't contain {:?} quality stream", quality)
Bail ==
    /\ pc = "resolved"
    /\ default_video_stream_index = None
    /\ pc' = "quality_unavailable"
    /\ UNCHANGED <<answer, streams, quality, skip_prompts, raw_prompts, stdin,
                   default_video_stream_index, video_streams,
                   audio_streams, subtitle_streams, undefined_streams,
                   choices_with_default, choices_with_default_ranges, printed,
                   input_read, selected_choices_index, video_streams_offset,
                   audio_streams_offset, subtitle_streams_offset, selected_streams,
                   selected_subtitle_streams>>
    /\ UNCHANGED <<sortVars, segVars, nameVars, chainVars>>

\* partition self.streams, build choices_with_default and its ranges
BuildChoices ==
    /\ pc = "resolved"
    /\ IsSome(default_video_stream_index)
    /\ video_streams' = Filter(streams, IsVideo)
    /\ audio_streams' = Filter(streams, IsAudio)
    /\ subtitle_streams' = Filter(streams, IsSubtitles)
    /\ undefined_streams' = Filter(streams, IsUndefined)
    /\ choices_with_default' =
            BuildChoiceList(video_streams', audio_streams', subtitle_streams',
                            Unwrap(default_video_stream_index))
    /\ choices_with_default_ranges' =
            BuildRanges(Len(video_streams'), Len(audio_streams'),
                        Len(subtitle_streams'), Scripted)
    /\ pc' = "built"
    /\ UNCHANGED <<answer, streams, quality, skip_prompts, raw_prompts, stdin,
                   default_video_stream_index, printed,
                   input_read, selected_choices_index, video_streams_offset,
                   audio_streams_offset, subtitle_streams_offset, selected_streams,
                   selected_subtitle_streams>>
    /\ UNCHANGED <<sortVars, segVars, nameVars, chainVars>>

\* the for loop over choices_with_default: numbered lines, defaults collected
PrintChoices ==
    /\ pc = "built"
    /\ Scripted
    /\ LET shown == Filter(choices_with_default, IsChoice)
           IsDefault(k) == shown[k].selected
       IN  /\ printed' = [k \in 1..Len(shown) |-> shown[k].stream]
           /\ selected_choices_index' = Filter(Indices(Len(shown)), IsDefault)
    /\ pc' = "printed"
    /\ UNCHANGED <<answer, streams, quality, skip_prompts, raw_prompts, stdin,
                   default_video_stream_index, video_streams,
                   audio_streams, subtitle_streams, undefined_streams,
                   choices_with_default, choices_with_default_ranges,
                   input_read, video_streams_offset,
                   audio_streams_offset, subtitle_streams_offset, selected_streams,
                   selected_subtitle_streams>>
    /\ UNCHANGED <<sortVars, segVars, nameVars, chainVars>>

\* the scripted offsets
ScriptedOffsets ==
    /\ video_streams_offset' = 1
    /\ audio_streams_offset' = 1 + Len(video_streams)
    /\ subtitle_streams_offset' = 1 + Len(video_streams) + Len(audio_streams)

\* raw_prompts && !skip_prompts: read one line, replace the defaults unless it is blank
ReadInput ==
    /\ pc = "printed"
    /\ raw_prompts /\ ~skip_prompts
    /\ input_read' = TRUE
    /\ selected_choices_index' =
            IF stdin # <<>> THEN ParseInput(stdin) ELSE selected_choices_index
    /\ ScriptedOffsets
    /\ pc' = "mapping"
    /\ UNCHANGED <<answer, streams, quality, skip_prompts, raw_prompts, stdin,
                   default_video_stream_index, video_streams,
                   audio_streams, subtitle_streams, undefined_streams,
                   choices_with_default, choices_with_default_ranges, printed,
                   selected_streams, selected_subtitle_streams>>
    /\ UNCHANGED <<sortVars, segVars, nameVars, chainVars>>

\* skip_prompts: nothing is read, the defaults stand
UseDefaults ==
    /\ pc = "printed"
    /\ ~(raw_prompts /\ ~skip_prompts)
    /\ ScriptedOffsets
    /\ pc' = "mapping"
    /\ UNCHANGED <<answer, streams, quality, skip_prompts, raw_prompts, stdin,
                   default_video_stream_index, video_streams,
                   audio_streams, subtitle_streams, undefined_streams,
                   choices_with_default, choices_with_default_ranges, printed,
                   input_read, selected_choices_index,
                   selected_streams, selected_subtitle_streams>>
    /\ UNCHANGED <<sortVars, segVars, nameVars, chainVars>>

\* positions of choices_with_default that hold a choice (0-based)
ChoicePositions(cs) == {p \in 0..(Len(cs) - 1) : ~At(cs, p).sep}

\* the members of a set of naturals in ascending order
RECURSIVE Ascending(_)
Ascending(S) ==
    IF S = {} THEN <<>>
    ELSE LET m == CHOOSE x \in S : \A y \in S : x <= y
         IN  <<m>> \o Ascending(S \ {m})

\* the interactive prompt with the audio offset of the scripted modes
Prompt_AudioOffsetWithoutSeparator ==
    /\ pc = "built"
    /\ ~Scripted
    /\ input_read' = TRUE
    /\ \E picked \in SUBSET ChoicePositions(choices_with_default) :
            /\ answer' = Ascending(picked)
            /\ selected_choices_index' = Ascending(picked)
    /\ video_streams_offset' = 1
    /\ audio_streams_offset' = 1 + Len(video_streams)
    /\ subtitle_streams_offset' = 1 + Len(video_streams) + 1 + Len(audio_streams) + 1
    /\ pc' = "mapping"
    /\ UNCHANGED <<streams, quality, skip_prompts, raw_prompts, stdin,
                   default_video_stream_index, video_streams,
                   audio_streams, subtitle_streams, undefined_streams,
                   choices_with_default, choices_with_default_ranges, printed,
                   selected_streams, selected_subtitle_streams>>
    /\ UNCHANGED <<sortVars, segVars, nameVars, chainVars>>

\* requestty::prompt_one on the multi-select: the checked positions, in list order
Prompt ==
    /\ pc = "built"
    /\ ~Scripted
    /\ input_read' = TRUE
    /\ \E picked \in SUBSET ChoicePositions(choices_with_default) :
            /\ answer' = Ascending(picked)
            /\ selected_choices_index' = Ascending(picked)
    /\ video_streams_offset' = 1
    /\ audio_streams_offset' = 1 + Len(video_streams) + 1
    /\ subtitle_streams_offset' = 1 + Len(video_streams) + 1 + Len(audio_streams) + 1
    /\ pc' = "mapping"
    /\ UNCHANGED <<streams, quality, skip_prompts, raw_prompts, stdin,
                   default_video_stream_index, video_streams,
                   audio_streams, subtitle_streams, undefined_streams,
                   choices_with_default, choices_with_default_ranges, printed,
                   selected_streams, selected_subtitle_streams>>
    /\ UNCHANGED <<sortVars, segVars, nameVars, chainVars>>

\* the section of the index at the head of the loop: 0 video, 1 audio, 2 subtitle, 3 none
SectionOf(i) ==
    IF Contains(choices_with_default_ranges[1], i) THEN 0
    ELSE IF Contains(choices_with_default_ranges[2], i) THEN 1
    ELSE IF Contains(choices_with_default_ranges[3], i) THEN 2
    ELSE 3

\* i - offset is computable in usize and is a position of the pending list
CanRemove(pending, i, offset) == i >= offset /\ i - offset < Len(pending)

MapUnchanged ==
    /\ UNCHANGED <<answer, streams, quality, skip_prompts, raw_prompts, stdin,
                   default_video_stream_index, undefined_streams,
                   choices_with_default, choices_with_default_ranges, printed,
                   input_read>>
    /\ UNCHANGED <<sortVars, segVars, nameVars, chainVars>>

MapVideo ==
    /\ pc = "mapping"
    /\ selected_choices_index # <<>>
    /\ LET i == Head(selected_choices_index)
       IN  /\ SectionOf(i) = 0
           /\ CanRemove(video_streams, i, video_streams_offset)
           /\ selected_streams' =
                   Append(selected_streams, At(video_streams, i - video_streams_offset))
           /\ video_streams' = Remove(video_streams, i - video_streams_offset)
    /\ video_streams_offset' = video_streams_offset + 1
    /\ selected_choices_index' = Tail(selected_choices_index)
    /\ UNCHANGED <<pc, audio_streams, subtitle_streams, audio_streams_offset,
                   subtitle_streams_offset, selected_subtitle_streams>>
    /\ MapUnchanged

MapAudio ==
    /\ pc = "mapping"
    /\ selected_choices_index # <<>>
    /\ LET i == Head(selected_choices_index)
       IN  /\ SectionOf(i) = 1
           /\ CanRemove(audio_streams, i, audio_streams_offset)
           /\ selected_streams' =
                   Append(selected_streams, At(audio_streams, i - audio_streams_offset))
           /\ audio_streams' = Remove(audio_streams, i - audio_streams_offset)
    /\ audio_streams_offset' = audio_streams_offset + 1
    /\ selected_choices_index' = Tail(selected_choices_index)
    /\ UNCHANGED <<pc, video_streams, subtitle_streams, video_streams_offset,
                   subtitle_streams_offset, selected_subtitle_streams>>
    /\ MapUnchanged

MapSubtitle ==
    /\ pc = "mapping"
    /\ selected_choices_index # <<>>
    /\ LET i == Head(selected_choices_index)
       IN  /\ SectionOf(i) = 2
           /\ CanRemove(subtitle_streams, i, subtitle_streams_offset)
           /\ selected_subtitle_streams' =
                   Append(selected_subtitle_streams,
                          At(subtitle_streams, i - subtitle_streams_offset))
           /\ subtitle_streams' = Remove(subtitle_streams, i - subtitle_streams_offset)
    /\ subtitle_streams_offset' = subtitle_streams_offset + 1
    /\ selected_choices_index' = Tail(selected_choices_index)
    /\ UNCHANGED <<pc, video_streams, audio_streams, video_streams_offset,
                   audio_streams_offset, selected_streams>>
    /\ MapUnchanged

\* an index no range contains falls through the if / else if chain
MapSkip ==
    /\ pc = "mapping"
    /\ selected_choices_index # <<>>
    /\ SectionOf(Head(selected_choices_index)) = 3
    /\ selected_choices_index' = Tail(selected_choices_index)
    /\ UNCHANGED <<pc, video_streams, audio_streams, subtitle_streams,
                   video_streams_offset, audio_streams_offset, subtitle_streams_offset,
                   selected_streams, selected_subtitle_streams>>
    /\ MapUnchanged

\* i - offset below zero (overflow panic, or a wrapped index that Vec::remove
\* rejects), or a position past the end of the pending list: the thread panics
MapPanic ==
    /\ pc = "mapping"
    /\ selected_choices_index # <<>>
    /\ LET i == Head(selected_choices_index)
       IN  \/ SectionOf(i) = 0 /\ ~CanRemove(video_streams, i, video_streams_offset)
           \/ SectionOf(i) = 1 /\ ~CanRemove(audio_streams, i, audio_streams_offset)
           \/ SectionOf(i) = 2 /\ ~CanRemove(subtitle_streams, i, subtitle_streams_offset)
    /\ pc' = "panic"
    /\ UNCHANGED <<selected_choices_index, video_streams, audio_streams, subtitle_streams,
                   video_streams_offset, audio_streams_offset, subtitle_streams_offset,
                   selected_streams, selected_subtitle_streams>>
    /\ MapUnchanged

\* Ok((selected_streams, selected_subtitle_streams))
Return ==
    /\ pc = "mapping"
    /\ selected_choices_index = <<>>
    /\ pc' = "done"
    /\ UNCHANGED <<selected_choices_index, video_streams, audio_streams, subtitle_streams,
                   video_streams_offset, audio_streams_offset, subtitle_streams_offset,
                   selected_streams, selected_subtitle_streams>>
    /\ MapUnchanged

----------------------------------------------------------------------------
(* select_streams: the calls explored *)

\* the locals of select_streams before its first statement
SelectEntry ==
    /\ default_video_stream_index = None
    /\ video_streams = <<>>
    /\ audio_streams = <<>>
    /\ subtitle_streams = <<>>
    /\ undefined_streams = <<>>
    /\ choices_with_default = <<>>
    /\ choices_with_default_ranges = <<Range(0, 0), Range(0, 0), Range(0, 0), Range(0, 0)>>
    /\ printed = <<>>
    /\ input_read = FALSE
    /\ answer = <<>>
    /\ selected_choices_index = <<>>
    /\ video_streams_offset = 0
    /\ audio_streams_offset = 0
    /\ subtitle_streams_offset = 0
    /\ selected_streams = <<>>
    /\ selected_subtitle_streams = <<>>

\* select_streams is not called
SelectIdle ==
    /\ streams = <<>>
    /\ quality = Quality("Highest", 0, 0)
    /\ skip_prompts = TRUE
    /\ raw_prompts = FALSE
    /\ stdin = <<>>
    /\ SelectEntry
    /\ pc = "idle"

Repeat(x, n) == [k \in 1..n |-> x]

\* nv video, na audio, ns subtitle and nu undefined renditions, in ranked layout
Grouped(nv, na, ns, nu) ==
    Repeat(Plain("Video"), nv) \o Repeat(Plain("Audio"), na)
        \o Repeat(Plain("Subtitles"), ns) \o Repeat(Plain("Undefined"), nu)

Reverse(v) == [k \in 1..Len(v) |-> v[Len(v) + 1 - k]]

Layouts ==
    LET g == {Grouped(nv, na, ns, nu) :
                  nv \in 0..MaxVideo, na \in 0..MaxAudio,
                  ns \in 0..MaxSubs, nu \in 0..MaxUndefined}
    IN  g \cup {Reverse(a) : a \in g}

Tokens == {IntToken(n) : n \in 0..MaxToken} \cup {NonInteger}

InputLines == SeqsUpTo(Tokens, MaxInputLen)

SelectNext ==
    \/ ResolveDefault
    \/ ResolvePanic
    \/ Bail
    \/ BuildChoices
    \/ PrintChoices
    \/ ReadInput
    \/ UseDefaults
    \/ Prompt
    \/ MapVideo
    \/ MapAudio
    \/ MapSubtitle
    \/ MapSkip
    \/ MapPanic
    \/ Return

\* scripted and interactive runs over every layout and every typed line
SelectInit ==
    /\ streams \in {MasterPlaylist(a) : a \in Layouts}
    /\ \/ /\ skip_prompts = FALSE /\ raw_prompts = TRUE
          /\ quality = Quality("Highest", 0, 0)
          /\ stdin \in InputLines
       \/ /\ skip_prompts \in BOOLEAN /\ raw_prompts \in BOOLEAN
          /\ quality \in {Quality("Highest", 0, 0), Quality("Lowest", 0, 0),
                          Quality("Youtube720p", 0, 0)}
          /\ stdin \in {<<>>, <<IntToken(1)>>}
    /\ pc = "start"
    /\ SelectEntry
    /\ sort_pc = "idle" /\ sort_input = <<>> /\ prefer_audio_lang = None
    /\ prefer_subs_lang = None /\ sort_output = <<>> /\ audio_keys = <<>>
    /\ subtitle_keys = <<>> /\ video_keys = <<>> /\ resort_output = <<>>
    /\ segment = <<>> /\ baseurl = <<>> /\ previous_byterange_end = 0
    /\ seg_op = "idle" /\ seg_result = <<>>
    /\ NameIdle /\ ChainIdle

SpecSelect == SelectInit /\ [][SelectNext]_vars

\* the resolutions and policies the quality runs draw from
QualityResolutions == {None, Some(<<256, 144>>), Some(<<1280, 720>>), Some(<<1280, 144>>)}

QualityAttrs ==
    {Attr("Video", r, None, None, None) : r \in QualityResolutions}
        \cup {Plain("Audio"), Plain("Subtitles"), Plain("Undefined")}

QualityPolicies ==
    {Quality("Lowest", 0, 0), Quality("Highest", 0, 0), Quality("Resolution", 1280, 144),
     Quality("Resolution", 640, 360), Quality("Youtube144p", 0, 0),
     Quality("Youtube720p", 0, 0), Quality("Youtube4k", 0, 0)}

\* every manifest order and every policy, under each presentation mode
QualityInit ==
    /\ streams \in {MasterPlaylist(a) : a \in SeqsUpTo(QualityAttrs, MaxQualityStreams)}
    /\ quality \in QualityPolicies
    /\ \/ skip_prompts = TRUE /\ raw_prompts = FALSE /\ stdin = <<>>
       \/ skip_prompts = FALSE /\ raw_prompts = FALSE /\ stdin = <<>>
       \/ /\ skip_prompts = FALSE /\ raw_prompts = TRUE
          /\ stdin = <<IntToken(0), IntToken(2), IntToken(1)>>
    /\ pc = "start"
    /\ SelectEntry
    /\ sort_pc = "idle" /\ sort_input = <<>> /\ prefer_audio_lang = None
    /\ prefer_subs_lang = None /\ sort_output = <<>> /\ audio_keys = <<>>
    /\ subtitle_keys = <<>> /\ video_keys = <<>> /\ resort_output = <<>>
    /\ segment = <<>> /\ baseurl = <<>> /\ previous_byterange_end = 0
    /\ seg_op = "idle" /\ seg_result = <<>>
    /\ NameIdle /\ ChainIdle

SpecQuality == QualityInit /\ [][SelectNext]_vars

----------------------------------------------------------------------------
(* Properties of select_streams *)

RawRun == raw_prompts /\ ~skip_prompts

NoSelection == selected_streams = <<>> /\ selected_subtitle_streams = <<>>

\* the rendition of the manifest with the given uri
StreamOf(uri) == streams[uri]

\* the typed line holds only integers, all distinct, each a displayed index
TypedDistinctDisplayed ==
    /\ stdin # <<>>
    /\ \A k \in 1..Len(stdin) : stdin[k].int /\ stdin[k].val \in 1..Len(printed)
    /\ \A j, k \in 1..Len(stdin) : j # k => stdin[j].val # stdin[k].val

\* the uris printed under the typed indices, in typed order
TypedUris == [k \in 1..Len(stdin) |-> printed[stdin[k].val]]

IsSubtitleUri(u) == StreamOf(u).media_type = "Subtitles"

IsMediaUri(u) == StreamOf(u).media_type \in {"Video", "Audio"}

\* C1: in scripted mode, for every typed list of distinct displayed indices in
\* any order, select_streams completes and returns the renditions printed under
\* the typed indices, in typed order: video and audio picks in the first
\* sequence, subtitle picks in the second.
C1_TypedOrderIsSelectionOrder ==
    (RawRun /\ pc \in {"done", "panic"} /\ input_read /\ TypedDistinctDisplayed) =>
        /\ pc = "done"
        /\ Uris(selected_streams) = Filter(TypedUris, IsMediaUri)
        /\ Uris(selected_subtitle_streams) = Filter(TypedUris, IsSubtitleUri)

\* the scenario of C2: 2 video, 2 audio, 1 subtitle renditions, the line "1,3"
Scenario13 ==
    /\ RawRun
    /\ Len(Filter(streams, IsVideo)) = 2
    /\ Len(Filter(streams, IsAudio)) = 2
    /\ Len(Filter(streams, IsSubtitles)) = 1
    /\ stdin = <<IntToken(1), IntToken(3)>>

\* C2 as stated: "1,3" against 2 video / 2 audio / 1 subtitle selects the first
\* video rendition and then the second video rendition, never an audio one.
C2_Original_ThirdIndexIsSecondVideo ==
    (Scenario13 /\ pc = "done") =>
        /\ selected_streams = <<Filter(streams, IsVideo)[1], Filter(streams, IsVideo)[2]>>
        /\ \A k \in 1..Len(selected_streams) : selected_streams[k].media_type # "Audio"

\* C2 amended: "1,3" against 2 video / 2 audio / 1 subtitle selects the first
\* video rendition (printed under 1) and then the first audio rendition (printed
\* under 3; index 2 is the second video rendition), and no subtitle.
C2_ThirdIndexIsFirstAudio ==
    (Scenario13 /\ pc = "done") =>
        /\ selected_streams = <<Filter(streams, IsVideo)[1], Filter(streams, IsAudio)[1]>>
        /\ Uris(selected_streams) = <<printed[1], printed[3]>>
        /\ selected_subtitle_streams = <<>>

C2_Witness == Scenario13 /\ pc = "done" /\ Len(selected_streams) = 2

\* the video renditions with exactly the target resolution, by 0-based rank
ExactMatches ==
    LET vs == Filter(streams, IsVideo)
        t == TargetResolution(quality)
    IN  {i \in 0..(Len(vs) - 1) :
            /\ vs[i + 1].resolution # None
            /\ vs[i + 1].resolution[1] = t}

\* the default index the claim C3 prescribes for a non-empty video group
ExpectedDefault ==
    LET n == Len(Filter(streams, IsVideo))
    IN  CASE quality.kind = "Highest" -> Some(0)
          [] quality.kind = "Lowest" -> Some(n - 1)
          [] OTHER ->
                IF ExactMatches = {} THEN None
                ELSE Some(CHOOSE i \in ExactMatches : \A j \in ExactMatches : i <= j)

HasVideo == Len(Filter(streams, IsVideo)) > 0

\* C3: for a non-empty video group the default video index is 0 for Highest,
\* the last index for Lowest, and for Resolution(w,h) or a preset the smallest
\* index of a video rendition with exactly the target (width,height); when no
\* video rendition has it, select_streams ends with the quality-unavailable
\* error for the requested policy, with nothing shown and nothing selected.
C3_DefaultVideoIndex ==
    (HasVideo /\ pc # "start") =>
        /\ default_video_stream_index = ExpectedDefault
        /\ (ExpectedDefault = None) =>
                /\ pc \in {"resolved", "quality_unavailable"}
                /\ NoSelection /\ printed = <<>> /\ ~input_read
                /\ choices_with_default = <<>>
        /\ (pc = "resolved" /\ ExpectedDefault = None) => ENABLED Bail
        /\ (pc = "quality_unavailable") => ExpectedDefault = None
        /\ (ExpectedDefault # None) => pc # "quality_unavailable"

\* a preset resolved past a non-matching first rendition, with a later match too
C3_Witness ==
    /\ pc = "built"
    /\ quality.kind \notin {"Highest", "Lowest"}
    /\ default_video_stream_index = Some(1)
    /\ Cardinality(ExactMatches) = 2
    /\ Len(Filter(streams, IsVideo)) = 3

\* C4: with no video rendition, select_streams ends with the quality-unavailable
\* error whatever the policy, before any choice is shown, and selects nothing.
C4_EmptyVideoGroupFails ==
    (~HasVideo /\ pc \notin {"start", "resolved"}) =>
        /\ pc = "quality_unavailable"
        /\ printed = <<>> /\ choices_with_default = <<>> /\ NoSelection

\* C5: a run fails only with quality-unavailable, raised before any choice line
\* is printed and before any input is read; once a scripted run has read its
\* line, whatever the line, it never aborts and ends in success.
C5_TwoOutcomes ==
    /\ (pc = "quality_unavailable") => (printed = <<>> /\ ~input_read /\ NoSelection)
    /\ (RawRun /\ input_read) => pc \in {"mapping", "done"}

----------------------------------------------------------------------------
(* sort_streams *)

MaxSortLen == 3

\* char::to_lowercase on the characters language tags are written in
LowerChar(c) ==
    CASE c = "A" -> "a"
      [] c = "B" -> "b"
      [] OTHER -> c

\* String::to_lowercase; a string is a sequence of ASCII characters
to_lowercase(str) == [k \in 1..Len(str) |-> LowerChar(str[k])]

\* str::get(0..2): the first two bytes, or None when the string is shorter
Get02(str) == IF Len(str) >= 2 THEN Some(SubSeq(str, 1, 2)) ELSE None

\* the language_factor of the Audio and Subtitles arms; prefer is the raw argument
LanguageFactor(language, prefer) ==
    LET prefer_lang == IF IsSome(prefer) THEN Some(to_lowercase(Unwrap(prefer))) ELSE None
        playlist_lang == IF IsSome(language) THEN Some(to_lowercase(Unwrap(language))) ELSE None
    IN  IF IsSome(playlist_lang)
        THEN IF IsSome(prefer_lang)
             THEN IF Unwrap(playlist_lang) = Unwrap(prefer_lang) THEN 2
                  ELSE IF Get02(Unwrap(playlist_lang)) = Get02(Unwrap(prefer_lang)) THEN 1
                  ELSE 0
             ELSE 0
        ELSE 0

\* the pixels of the Video arm
Pixels(stream) ==
    IF IsSome(stream.resolution)
    THEN Unwrap(stream.resolution)[1] * Unwrap(stream.resolution)[2]
    ELSE 0

\* the tuples pushed by the four arms of the match
AudioKey(stream, prefer) ==
    <<stream, LanguageFactor(stream.language, prefer), UnwrapOr(stream.channels, 0),
      UnwrapOr(stream.bandwidth, 0)>>

SubtitleKey(stream, prefer) == <<stream, LanguageFactor(stream.language, prefer)>>

VideoKey(stream) == <<stream, Pixels(stream), UnwrapOr(stream.bandwidth, 0)>>

\* one step of a stable descending sort: x goes behind every element whose
\* component c is not smaller
RECURSIVE InsertDesc(_, _, _)
InsertDesc(sorted, x, c) ==
    IF sorted = <<>> THEN <<x>>
    ELSE IF Head(sorted)[c] >= x[c] THEN <<Head(sorted)>> \o InsertDesc(Tail(sorted), x, c)
    ELSE <<x>> \o sorted

\* sort_by(|x, y| y.c.cmp(&x.c)): stable, descending in tuple component c (1-based)
RECURSIVE SortByDesc(_, _)
SortByDesc(v, c) ==
    IF v = <<>> THEN <<>>
    ELSE InsertDesc(SortByDesc(SubSeq(v, 1, Len(v) - 1), c), v[Len(v)], c)

\* video_streams.sort_by(.2) then sort_by(.1)
SortVideo(keys) == SortByDesc(SortByDesc(keys, 3), 2)

\* the three passes run most significant key first
SortAudio_MostSignificantFirst(keys) == SortByDesc(SortByDesc(SortByDesc(keys, 2), 3), 4)

\* audio_streams.sort_by(.3) then sort_by(.2) then sort_by(.1)
SortAudio(keys) == SortByDesc(SortByDesc(SortByDesc(keys, 4), 3), 2)

\* subtitle_streams.sort_by on the reversed vector
SortSubtitles_FromTheBack(keys) == SortByDesc(Reverse(keys), 2)

\* subtitle_streams.sort_by(.1)
SortSubtitles(keys) == SortByDesc(keys, 2)

\* .map(|x| x.0)
Streams0(keys) == [k \in 1..Len(keys) |-> keys[k][1]]

\* the chain with the audio group ahead of the video group
Chain_AudioFirst(video, audio, subtitle, undefined) ==
    Streams0(audio) \o Streams0(video) \o Streams0(subtitle) \o undefined

\* the chain collected into self.streams
Chain(video, audio, subtitle, undefined) ==
    Streams0(video) \o Streams0(audio) \o Streams0(subtitle) \o undefined

\* the tuples pushed for the audio, subtitle and video renditions
PushedAudio(input, prefer) ==
    LET a == Filter(input, IsAudio)
    IN  [k \in 1..Len(a) |-> AudioKey(a[k], prefer)]

PushedSubtitle(input, prefer) ==
    LET b == Filter(input, IsSubtitles)
    IN  [k \in 1..Len(b) |-> SubtitleKey(b[k], prefer)]

PushedVideo(input) ==
    LET c == Filter(input, IsVideo)
    IN  [k \in 1..Len(c) |-> VideoKey(c[k])]

\* self.streams as sort_streams returns it
sort_streams(input, audio_lang, subs_lang) ==
    Chain(SortVideo(PushedVideo(input)), SortAudio(PushedAudio(input, audio_lang)),
          SortSubtitles(PushedSubtitle(input, subs_lang)), Filter(input, IsUndefined))

\* the whole of sort_streams
SortStreams ==
    /\ sort_pc = "start"
    /\ audio_keys' = PushedAudio(sort_input, prefer_audio_lang)
    /\ subtitle_keys' = PushedSubtitle(sort_input, prefer_subs_lang)
    /\ video_keys' = PushedVideo(sort_input)
    /\ sort_output' = sort_streams(sort_input, prefer_audio_lang, prefer_subs_lang)
    /\ sort_pc' = "sorted"
    /\ UNCHANGED <<sort_input, prefer_audio_lang, prefer_subs_lang, resort_output>>
    /\ UNCHANGED <<selVars, segVars, nameVars, chainVars>>

\* sort_streams called on the playlist it returned, with the same preferences
SortAgain ==
    /\ sort_pc = "sorted"
    /\ resort_output' = sort_streams(sort_output, prefer_audio_lang, prefer_subs_lang)
    /\ sort_pc' = "resorted"
    /\ UNCHANGED <<sort_input, prefer_audio_lang, prefer_subs_lang, sort_output,
                   audio_keys, subtitle_keys, video_keys>>
    /\ UNCHANGED <<selVars, segVars, nameVars, chainVars>>

SortNext == SortStreams \/ SortAgain

\* language tags: a one-character tag, a two-letter tag, a longer mixed-case tag
TagA == <<"a">>
TagB == <<"b">>
TagAb == <<"a", "b">>
TagABa == <<"A", "B", "a">>

SortAttrs ==
    {Attr("Video", r, b, None, None) : r \in {None, Some(<<2, 1>>)}, b \in {None, Some(1)}}
        \cup {Attr("Audio", None, b, c, l) :
                  b \in {None, Some(1)}, c \in {None, Some(2)}, l \in {None, Some(TagAb)}}
        \cup {Attr("Subtitles", None, None, None, Some(l)) : l \in {TagA, TagAb, TagABa}}
        \cup {Plain("Undefined")}

SortInit ==
    /\ sort_pc = "start"
    /\ sort_input \in {MasterPlaylist(a) : a \in SeqsUpTo(SortAttrs, MaxSortLen)}
    /\ \/ prefer_audio_lang = None /\ prefer_subs_lang = None
       \/ prefer_audio_lang = Some(TagAb) /\ prefer_subs_lang = Some(<<"A", "b">>)
       \/ prefer_audio_lang = Some(TagAb) /\ prefer_subs_lang = Some(TagB)
    /\ sort_output = <<>> /\ audio_keys = <<>> /\ subtitle_keys = <<>> /\ video_keys = <<>>
    /\ resort_output = <<>>
    /\ SelectIdle
    /\ segment = <<>> /\ baseurl = <<>> /\ previous_byterange_end = 0
    /\ seg_op = "idle" /\ seg_result = <<>>
    /\ NameIdle /\ ChainIdle

SpecSort == SortInit /\ [][SortNext]_vars

----------------------------------------------------------------------------
(* Properties of sort_streams *)

Sorted == sort_pc = "sorted"

\* position of a rendition in a sequence that holds it once
PosIn(v, x) == CHOOSE k \in 1..Len(v) : v[k] = x

\* a is lexicographically greater than b (same length)
LexGreater(a, b) ==
    \E k \in 1..Len(a) : a[k] > b[k] /\ \A j \in 1..(k - 1) : a[j] = b[j]

\* out is what one stable sort of in with the lexicographic descending comparator
\* on Key gives: the same renditions, greater keys first, equal keys in input order
IsStableLexSort(out, in, Key(_)) ==
    /\ Len(out) = Len(in)
    /\ \A k \in 1..Len(in) : \E j \in 1..Len(out) : out[j] = in[k]
    /\ \A i, j \in 1..Len(out) :
            i < j =>
                \/ LexGreater(Key(out[i]), Key(out[j]))
                \/ Key(out[i]) = Key(out[j]) /\ PosIn(in, out[i]) < PosIn(in, out[j])

\* the keys as the ranking rules name them; an absent value counts as 0
AreaOrZero(x) ==
    IF x.resolution = None THEN 0 ELSE x.resolution[1][1] * x.resolution[1][2]

BandwidthOrZero(x) == IF x.bandwidth = None THEN 0 ELSE x.bandwidth[1]

ChannelsOrZero(x) == IF x.channels = None THEN 0 ELSE x.channels[1]

RuleVideoKey(x) == <<AreaOrZero(x), BandwidthOrZero(x)>>

RuleAudioKey(x) ==
    <<LanguageFactor(x.language, prefer_audio_lang), ChannelsOrZero(x), BandwidthOrZero(x)>>

RuleSubtitleKey(x) == <<LanguageFactor(x.language, prefer_subs_lang)>>

\* C6: each group of the output is ordered as one stable sort with a
\* lexicographic descending comparator orders it: video by (pixel area,
\* bandwidth), audio by (language_factor, channels, bandwidth), subtitles by
\* language_factor with ties in input order, undefined renditions in input
\* order; absent resolution, bandwidth and channels count as 0.
C6_RepeatedSortsAreLexicographic ==
    Sorted =>
        /\ IsStableLexSort(Filter(sort_output, IsVideo), Filter(sort_input, IsVideo),
                           RuleVideoKey)
        /\ IsStableLexSort(Filter(sort_output, IsAudio), Filter(sort_input, IsAudio),
                           RuleAudioKey)
        /\ IsStableLexSort(Filter(sort_output, IsSubtitles),
                           Filter(sort_input, IsSubtitles), RuleSubtitleKey)
        /\ Filter(sort_output, IsUndefined) = Filter(sort_input, IsUndefined)

\* three audio renditions, reordered, two of them with equal keys, and a pair
\* whose first key and last key pull in opposite directions
C6_Witness ==
    /\ Sorted
    /\ Filter(sort_output, IsAudio) # Filter(sort_input, IsAudio)
    /\ LET a == Filter(sort_input, IsAudio)
       IN  /\ Len(a) = 3
           /\ \E i, j \in 1..3 : i # j /\ RuleAudioKey(a[i]) = RuleAudioKey(a[j])
           /\ \E i, j \in 1..3 :
                   /\ RuleAudioKey(a[i])[1] > RuleAudioKey(a[j])[1]
                   /\ RuleAudioKey(a[i])[3] < RuleAudioKey(a[j])[3]

TypeRank(x) ==
    CASE x.media_type = "Video" -> 0
      [] x.media_type = "Audio" -> 1
      [] x.media_type = "Subtitles" -> 2
      [] x.media_type = "Undefined" -> 3

\* C7: the output of sort_streams is a permutation of its input, laid out as
\* all video, then all audio, then all subtitle, then all undefined renditions.
C7_PermutationInLayout ==
    Sorted =>
        /\ Len(sort_output) = Len(sort_input)
        /\ \A k \in 1..Len(sort_input) :
                Cardinality({j \in 1..Len(sort_output) : sort_output[j] = sort_input[k]}) = 1
        /\ \A i, j \in 1..Len(sort_output) :
                i < j => TypeRank(sort_output[i]) <= TypeRank(sort_output[j])

\* an input in the opposite of the layout
C7_Witness ==
    /\ Sorted
    /\ Len(sort_input) = 3
    /\ sort_input[1].media_type = "Undefined"
    /\ sort_input[2].media_type = "Audio"
    /\ sort_input[3].media_type = "Video"
    /\ Uris(sort_output) = <<3, 2, 1>>

\* the language_factor C8 prescribes
ClaimedFactor(language, prefer) ==
    IF language = None \/ prefer = None THEN 0
    ELSE LET a == to_lowercase(language[1])
             b == to_lowercase(prefer[1])
         IN  IF a = b THEN 2
             ELSE IF Len(a) >= 2 /\ Len(b) >= 2 /\ SubSeq(a, 1, 2) = SubSeq(b, 1, 2) THEN 1
             ELSE 0

\* C8: the language_factor of every audio and subtitle rendition is 2 iff its
\* tag equals the preferred tag case-insensitively, 1 iff the tags differ but
\* their first two characters agree case-insensitively, and 0 otherwise, also
\* when a tag has fewer than two characters.
C8_LanguageFactor ==
    Sorted =>
        /\ \A k \in 1..Len(audio_keys) :
                audio_keys[k][2] = ClaimedFactor(audio_keys[k][1].language, prefer_audio_lang)
        /\ \A k \in 1..Len(subtitle_keys) :
                subtitle_keys[k][2] =
                    ClaimedFactor(subtitle_keys[k][1].language, prefer_subs_lang)

----------------------------------------------------------------------------
(* Segment: byte ranges *)

\* u64 arithmetic is modelled modulo U64Modulus, so that every value of the
\* type is enumerated and both ends of the range are reached
U64Modulus == 8

U64 == 0..(U64Modulus - 1)

ByteRange(length, offset) == [length |-> length, offset |-> offset]

Map(uri, byte_range) == [uri |-> uri, byte_range |-> byte_range]

Key(uri) == [uri |-> uri]

Segment(uri, byte_range, map, key) ==
    [uri |-> uri, byte_range |-> byte_range, map |-> map, key |-> key]

\* what seg_range / map_range return: None, Some((header, end)), or a panic
NoRange == [kind |-> "None", header |-> <<>>, end |-> 0]

SomeRange(start, end) ==
    [kind |-> "Some", header |-> <<"bytes=", start, "-", end>>, end |-> end]

RangePanic == [kind |-> "Panic", header |-> <<>>, end |-> 0]

\* a + b - 1 in u64, left to right: with overflow checks it panics when a + b
\* leaves the type or when a + b is 0; without them it wraps
AddSubOne(a, b) ==
    IF a + b >= U64Modulus \/ a + b - 1 < 0
    THEN {[panic |-> TRUE, val |-> 0], [panic |-> FALSE, val |-> (a + b - 1) % U64Modulus]}
    ELSE {[panic |-> FALSE, val |-> a + b - 1]}

\* the body shared by seg_range and map_range once a byte range is at hand
RangeOf(byte_range, previous_end) ==
    LET offset == UnwrapOr(byte_range.offset, 0)
        start == IF offset = 0 THEN previous_end ELSE byte_range.length
        ends == IF offset = 0
                THEN AddSubOne(previous_end, byte_range.length)
                ELSE AddSubOne(byte_range.length, offset)
    IN  {IF e.panic THEN RangePanic ELSE SomeRange(start, e.val) : e \in ends}

seg_range(seg, previous_end) ==
    IF IsSome(seg.byte_range)
    THEN RangeOf(Unwrap(seg.byte_range), previous_end)
    ELSE {NoRange}

map_range(seg, previous_end) ==
    IF IsSome(seg.map)
    THEN IF IsSome(Unwrap(seg.map).byte_range)
         THEN RangeOf(Unwrap(Unwrap(seg.map).byte_range), previous_end)
         ELSE {NoRange}
    ELSE {NoRange}

SegRange ==
    /\ seg_op = "ready"
    /\ seg_result' \in seg_range(segment, previous_byterange_end)
    /\ seg_op' = "seg_range"
    /\ UNCHANGED <<segment, baseurl, previous_byterange_end>>
    /\ UNCHANGED <<selVars, sortVars, nameVars, chainVars>>

MapRange ==
    /\ seg_op = "ready"
    /\ seg_result' \in map_range(segment, previous_byterange_end)
    /\ seg_op' = "map_range"
    /\ UNCHANGED <<segment, baseurl, previous_byterange_end>>
    /\ UNCHANGED <<selVars, sortVars, nameVars, chainVars>>

RangeNext == SegRange \/ MapRange

----------------------------------------------------------------------------
(* Segment: URLs *)

\* A uri string, by what the code and the Url library see of it: the text it
\* starts with ("http", "ftp" or anything else), whether it is an absolute URL
\* (it has a scheme) or a relative reference, and the rest of it (id).
\*   http/absolute "http://h/x", "https://h/x"   http/relative "httpdocs/x"
\*   ftp/absolute  "ftp://h/x"                   ftp/relative  "ftpdir/x"
\*   other/absolute "file:///x"                  other/relative "x/seg.ts"
Uri(prefix, absolute, id) == [prefix |-> prefix, absolute |-> absolute, id |-> id]

\* uri.starts_with("http") || uri.starts_with("ftp")
StartsWithHttpOrFtp(uri) == uri.prefix \in {"http", "ftp"}

\* Result<Option<Url>>: Ok(Some(url)), Ok(None) or Err
OkUrl(base, uri) == [kind |-> "Ok", base |-> base, uri |-> uri]

NoUrl == [kind |-> "None", base |-> 0, uri |-> <<>>]

UrlErr == [kind |-> "Err", base |-> 0, uri |-> <<>>]

\* uri.parse::<Url>(): a relative reference has no base to resolve against
Parse(uri) == IF uri.absolute THEN OkUrl(0, Some(uri)) ELSE UrlErr

\* baseurl.join(uri): an absolute reference replaces the base
Join(base, uri) == IF uri.absolute THEN OkUrl(0, Some(uri)) ELSE OkUrl(base, Some(uri))

seg_url(seg, base) ==
    IF StartsWithHttpOrFtp(seg.uri) THEN Parse(seg.uri) ELSE Join(base, seg.uri)

map_url(seg, base) ==
    IF IsSome(seg.map)
    THEN IF StartsWithHttpOrFtp(seg.uri)
         THEN Parse(Unwrap(seg.map).uri)
         ELSE Join(base, Unwrap(seg.map).uri)
    ELSE NoUrl

key_url(seg, base) ==
    IF IsSome(seg.key)
    THEN IF StartsWithHttpOrFtp(seg.uri)
         THEN Parse(Unwrap(seg.key).uri)
         ELSE Join(base, Unwrap(seg.key).uri)
    ELSE NoUrl

SegUrl ==
    /\ seg_op = "ready"
    /\ seg_result' = seg_url(segment, baseurl)
    /\ seg_op' = "seg_url"
    /\ UNCHANGED <<segment, baseurl, previous_byterange_end>>
    /\ UNCHANGED <<selVars, sortVars, nameVars, chainVars>>

MapUrl ==
    /\ seg_op = "ready"
    /\ seg_result' = map_url(segment, baseurl)
    /\ seg_op' = "map_url"
    /\ UNCHANGED <<segment, baseurl, previous_byterange_end>>
    /\ UNCHANGED <<selVars, sortVars, nameVars, chainVars>>

KeyUrl ==
    /\ seg_op = "ready"
    /\ seg_result' = key_url(segment, baseurl)
    /\ seg_op' = "key_url"
    /\ UNCHANGED <<segment, baseurl, previous_byterange_end>>
    /\ UNCHANGED <<selVars, sortVars, nameVars, chainVars>>

UrlNext == SegUrl \/ MapUrl \/ KeyUrl

----------------------------------------------------------------------------
(* Segment: the calls explored *)

SortIdle ==
    /\ sort_pc = "idle" /\ sort_input = <<>> /\ prefer_audio_lang = None
    /\ prefer_subs_lang = None /\ sort_output = <<>> /\ audio_keys = <<>>
    /\ subtitle_keys = <<>> /\ video_keys = <<>> /\ resort_output = <<>>

ByteRanges == {ByteRange(l, o) : l \in U64, o \in {None} \cup {Some(n) : n \in U64}}

OptionOf(S) == {None} \cup {Some(x) : x \in S}

PlainUri(id) == Uri("other", FALSE, id)

\* every byte range on the segment and on its map, every cursor
RangeInit ==
    /\ \E br \in OptionOf(ByteRanges),
          m \in OptionOf({Map(PlainUri(2), mbr) : mbr \in OptionOf(ByteRanges)}) :
            segment = Segment(PlainUri(1), br, m, None)
    /\ previous_byterange_end \in U64
    /\ baseurl = 1
    /\ seg_op = "ready"
    /\ seg_result = NoRange
    /\ SelectIdle
    /\ SortIdle
    /\ NameIdle /\ ChainIdle

SpecRange == RangeInit /\ [][RangeNext]_vars

UriShapes(id) == {Uri(p, a, id) : p \in {"http", "ftp", "other"}, a \in BOOLEAN}

\* every shape of uri on the segment, its map and its key
UrlInit ==
    /\ \E u \in UriShapes(1),
          m \in OptionOf({Map(mu, None) : mu \in UriShapes(2)}),
          k \in OptionOf({Key(ku) : ku \in UriShapes(3)}) :
            segment = Segment(u, None, m, k)
    /\ previous_byterange_end = 0
    /\ baseurl \in {1, 2}
    /\ seg_op = "ready"
    /\ seg_result = NoUrl
    /\ SelectIdle
    /\ SortIdle
    /\ NameIdle /\ ChainIdle

SpecUrl == UrlInit /\ [][UrlNext]_vars

----------------------------------------------------------------------------
(* Properties of Segment *)

\* the byte range a range method reads
RangeRead ==
    IF seg_op = "seg_range" THEN segment.byte_range
    ELSE IF IsSome(segment.map) THEN Unwrap(segment.map).byte_range
    ELSE None

\* the reference of C9, in unbounded integers
ReferenceStart(br, previous_end) ==
    IF br.offset = None \/ br.offset = Some(0) THEN previous_end ELSE br.length

ReferenceEnd(br, previous_end) ==
    IF br.offset = None \/ br.offset = Some(0)
    THEN previous_end + br.length - 1
    ELSE br.length + br.offset[1] - 1

\* C9: seg_range and map_range return none without a byte range; with offset
\* absent or 0 they return start = previous_end, end = start + length - 1; with
\* a nonzero offset start = length, end = length + offset - 1; the header is
\* "bytes=<start>-<end>" and the new cursor is end; the arithmetic never wraps
\* below 0, for every length, length 0 included. (Stated for the inputs whose
\* sums stay at or below the largest u64.)
C9_RangeReference ==
    (seg_op \in {"seg_range", "map_range"}) =>
        IF RangeRead = None THEN seg_result = NoRange
        ELSE LET br == RangeRead[1]
                 start == ReferenceStart(br, previous_byterange_end)
                 end == ReferenceEnd(br, previous_byterange_end)
             IN  (end + 1 < U64Modulus) =>
                     /\ seg_result = SomeRange(start, end)
                     /\ seg_result.end \in U64

\* the rule of C10 applied to a uri of its own
OwnUriRule(uri, base) == IF StartsWithHttpOrFtp(uri) THEN Parse(uri) ELSE Join(base, uri)

\* a uri that starts with http or ftp exactly when it is an absolute URL
Regular(uri) == StartsWithHttpOrFtp(uri) <=> uri.absolute

\* C10: map_url (key_url) returns none exactly when the segment has no map (no
\* key); otherwise it parses the map's (key's) own uri as absolute exactly when
\* that uri starts with http or ftp and joins it with the base URL otherwise,
\* whatever the segment's own uri is. (Stated for uris that start with http or
\* ftp exactly when they are absolute URLs.)
C10_MapAndKeyUrlUseOwnUri ==
    /\ (seg_op = "map_url") =>
            /\ (seg_result = NoUrl) <=> (segment.map = None)
            /\ (segment.map # None /\ Regular(segment.uri) /\ Regular(segment.map[1].uri)) =>
                    seg_result = OwnUriRule(segment.map[1].uri, baseurl)
    /\ (seg_op = "key_url") =>
            /\ (seg_result = NoUrl) <=> (segment.key = None)
            /\ (segment.key # None /\ Regular(segment.uri) /\ Regular(segment.key[1].uri)) =>
                    seg_result = OwnUriRule(segment.key[1].uri, baseurl)

\* ---------------------------------------------------------------------------
\* MediaPlaylist::extension
\* ---------------------------------------------------------------------------

\* most segments a rendition of the extension model has
MaxSegments == 2

PlaylistType == {"Hls", "Dash"}

\* a uri as the sequence of its characters
Mp4Suffix == <<".", "m", "p", "4">>

\* str::ends_with
EndsWith(str, suffix) ==
    /\ Len(str) >= Len(suffix)
    /\ SubSeq(str, Len(str) - Len(suffix) + 1, Len(str)) = suffix

\* the fields of Segment and Map that extension reads
NamedMap(uri) == [uri |-> uri]
NamedSegment(uri, map) == [uri |-> uri, map |-> map]

\* the fields of MediaPlaylist that extension and file_path read
NamedPlaylist(uri, media_type, extension_field, playlist_type, segments) ==
    [uri |-> uri, media_type |-> media_type, extension |-> extension_field,
     playlist_type |-> playlist_type, segments |-> segments]

\* extension() that looks at the first segment's own uri only
extension_UriOnly(mp) ==
    IF mp.extension # None THEN mp.extension[1]
    ELSE LET ext0 == IF mp.playlist_type = "Hls" THEN "ts" ELSE "m4s"
         IN  IF Len(mp.segments) > 0 /\ EndsWith(mp.segments[1].uri, Mp4Suffix)
             THEN "mp4" ELSE ext0

extension(mp) ==
    IF mp.extension # None THEN mp.extension[1]
    ELSE LET ext0 == IF mp.playlist_type = "Hls" THEN "ts" ELSE "m4s"
             ext1 == IF Len(mp.segments) = 0 THEN ext0
                     ELSE LET seg == mp.segments[1]
                          IN  IF seg.map # None /\ EndsWith(seg.map[1].uri, Mp4Suffix)
                              THEN "mp4" ELSE ext0
         IN  IF Len(mp.segments) > 0 /\ EndsWith(mp.segments[1].uri, Mp4Suffix)
             THEN "mp4" ELSE ext1

Extension ==
    /\ ext_pc = "ready"
    /\ ext_result' = <<extension(media_playlist)>>
    /\ ext_pc' = "returned"
    /\ UNCHANGED <<media_playlist, pathVars>>
    /\ UNCHANGED <<selVars, sortVars, segVars, chainVars>>

ExtNext == Extension

\* uris: "s.mp4", "s.ts", "mp4" (no dot), "s.mp4?q" (a query after the suffix)
ExtUris ==
    { <<"s", ".", "m", "p", "4">>, <<"s", ".", "t", "s">>, <<"m", "p", "4">>,
      <<"s", ".", "m", "p", "4", "?", "q">> }

ExtSegments == { NamedSegment(u, m) : u \in ExtUris, m \in OptionOf({NamedMap(x) : x \in ExtUris}) }

ExtInit ==
    /\ media_playlist \in
          { NamedPlaylist(<<"x">>, "Video", e, t, segs) :
                e \in OptionOf({"mp4", "m4s"}), t \in PlaylistType,
                segs \in SeqsUpTo(ExtSegments, MaxSegments) }
    /\ ext_pc = "ready" /\ ext_result = <<>>
    /\ PathIdle
    /\ SelectIdle /\ SortIdle /\ ChainIdle
    /\ segment = <<>> /\ baseurl = <<>> /\ previous_byterange_end = 0
    /\ seg_op = "idle" /\ seg_result = <<>>

SpecExt == ExtInit /\ [][ExtNext]_vars

\* the segment's uri or its initialization segment's uri ends in .mp4
NamesMp4(seg) ==
    \/ EndsWith(seg.uri, Mp4Suffix)
    \/ seg.map # None /\ EndsWith(seg.map[1].uri, Mp4Suffix)

\* C11 as stated: whenever any segment's uri or that segment's initialization
\* segment's uri ends in .mp4, extension() returns mp4. (Stated for renditions
\* without an extension field.)
C11_Original_AnySegmentMp4 ==
    (/\ ext_pc = "returned"
     /\ media_playlist.extension = None
     /\ \E i \in 1..Len(media_playlist.segments) : NamesMp4(media_playlist.segments[i]))
        => ext_result = <<"mp4">>

\* C11: an explicit extension field is returned as it is; without one,
\* extension() returns mp4 whatever the playlist type when the first segment's
\* uri or its initialization segment's uri ends in .mp4, and the default of the
\* playlist type (ts for Hls, m4s for Dash) otherwise, later segments not
\* being looked at.
C11_FirstSegmentMp4 ==
    ext_pc = "returned" =>
        IF media_playlist.extension # None
        THEN ext_result = media_playlist.extension
        ELSE IF Len(media_playlist.segments) > 0 /\ NamesMp4(media_playlist.segments[1])
             THEN ext_result = <<"mp4">>
             ELSE ext_result = <<IF media_playlist.playlist_type = "Dash" THEN "m4s" ELSE "ts">>

\* a Dash rendition without an extension field whose first segment is not .mp4
\* but has an .mp4 initialization segment got mp4
C11_Witness ==
    /\ ext_pc = "returned"
    /\ media_playlist.extension = None
    /\ media_playlist.playlist_type = "Dash"
    /\ Len(media_playlist.segments) > 0
    /\ ~EndsWith(media_playlist.segments[1].uri, Mp4Suffix)
    /\ media_playlist.segments[1].map # None
    /\ EndsWith(media_playlist.segments[1].map[1].uri, Mp4Suffix)
    /\ ext_result = <<"mp4">>

\* ---------------------------------------------------------------------------
\* MediaPlaylist::file_path
\* ---------------------------------------------------------------------------

\* highest number n of a name _(n) that exists before the first call
MaxSuffix == 3

\* calls of file_path in one behaviour
MaxCalls == 3

\* values of the loop variable i explored
MaxProbe == 8

\* format!("{}", i)
RECURSIVE Decimal(_)
Decimal(n) == IF n < 10 THEN <<ToString(n)>> ELSE Decimal(n \div 10) \o <<ToString(n % 10)>>

\* position of the first (last) c in str, 0 when there is none
FirstIndex(str, c) ==
    IF \E i \in 1..Len(str) : str[i] = c
    THEN CHOOSE i \in 1..Len(str) : str[i] = c /\ \A j \in 1..(i - 1) : str[j] # c
    ELSE 0

LastIndex(str, c) ==
    IF \E i \in 1..Len(str) : str[i] = c
    THEN CHOOSE i \in 1..Len(str) : str[i] = c /\ \A j \in (i + 1)..Len(str) : str[j] # c
    ELSE 0

\* str.split(c).next().unwrap()
SplitNext(str, c) ==
    LET i == FirstIndex(str, c) IN IF i = 0 THEN str ELSE SubSeq(str, 1, i - 1)

\* str.split(c).last(), which is never None
SplitLast(str, c) ==
    LET i == LastIndex(str, c) IN IF i = 0 THEN str ELSE SubSeq(str, i + 1, Len(str))

\* the characters mapped to '_'
Replaced == {"<", ">", ":", "\"", "\\", "|", "?"}

ReplaceChars(str) == [i \in 1..Len(str) |-> IF str[i] \in Replaced THEN "_" ELSE str[i]]

\* PathBuf::with_extension("") on a single path component
with_extension_empty(name) ==
    IF name \in {<<>>, <<".">>, <<".", ".">>} THEN name
    ELSE LET i == LastIndex(name, ".") IN IF i <= 1 THEN name ELSE SubSeq(name, 1, i - 1)

\* the local filename
Filename(uri) == with_extension_empty(ReplaceChars(SplitLast(SplitNext(uri, "?"), "/")))

\* the local suffix
Suffix(media_type) ==
    CASE media_type = "Audio" -> <<"a", "u", "d", "i", "o">>
      [] media_type = "Subtitles" -> <<"s", "u", "b", "t", "i", "t", "l", "e", "s">>
      [] media_type = "Undefined" -> <<"u", "n", "d", "e", "f", "i", "n", "e", "d">>
      [] media_type = "Video" -> <<"v", "i", "d", "e", "o">>

\* format!("vsd_{}_{}.{}", suffix, filename, ext)
PlainFileName(suffix, filename, ext) ==
    <<"v", "s", "d", "_">> \o suffix \o <<"_">> \o filename \o <<".">> \o ext

\* a numbered name whose number is always 1
NumberedFileName_AlwaysOne(suffix, filename, i, ext) ==
    <<"v", "s", "d", "_">> \o suffix \o <<"_">> \o filename \o <<"_", "(">> \o Decimal(1)
        \o <<")", ".">> \o ext

\* format!("vsd_{}_{}_({}).{}", suffix, filename, i, ext)
NumberedFileName(suffix, filename, i, ext) ==
    <<"v", "s", "d", "_">> \o suffix \o <<"_">> \o filename \o <<"_", "(">> \o Decimal(i)
        \o <<")", ".">> \o ext

\* directory.join(path) for a relative path, path itself without a directory
PathJoin(directory, path) ==
    IF directory = None THEN path ELSE directory[1] \o <<"/">> \o path

\* PathBuf::set_file_name
set_file_name(path, name) == SubSeq(path, 1, LastIndex(path, "/")) \o name

\* the path before the existence test
FirstPath(mp, directory, ext) ==
    PathJoin(directory, PlainFileName(Suffix(mp.media_type), Filename(mp.uri), ext))

\* file_path up to the first existence test
FilePathEnter ==
    /\ fp_pc = "ready"
    /\ LET path == FirstPath(media_playlist, fp_directory, fp_ext)
       IN  /\ fp_path' = path
           /\ IF path \in existing
              THEN /\ fp_pc' = "loop"
                   /\ fp_i' = 1
                   /\ UNCHANGED fp_returned
              ELSE /\ fp_pc' = "returned"
                   /\ fp_returned' = Append(fp_returned, path)
                   /\ UNCHANGED fp_i
    /\ UNCHANGED <<media_playlist, extVars, fp_directory, fp_ext, existing>>
    /\ UNCHANGED <<selVars, sortVars, segVars, chainVars>>

\* one turn of for i in 1..
FilePathLoop ==
    /\ fp_pc = "loop"
    /\ fp_i <= MaxProbe
    /\ LET path == set_file_name(fp_path,
                       NumberedFileName(Suffix(media_playlist.media_type),
                                        Filename(media_playlist.uri), fp_i, fp_ext))
       IN  /\ fp_path' = path
           /\ IF path \notin existing
              THEN /\ fp_pc' = "returned"
                   /\ fp_returned' = Append(fp_returned, path)
                   /\ UNCHANGED fp_i
              ELSE /\ fp_i' = fp_i + 1
                   /\ UNCHANGED <<fp_pc, fp_returned>>
    /\ UNCHANGED <<media_playlist, extVars, fp_directory, fp_ext, existing>>
    /\ UNCHANGED <<selVars, sortVars, segVars, chainVars>>

\* the caller creates the file at the returned path and asks again
CreateFile ==
    /\ fp_pc = "returned"
    /\ Len(fp_returned) < MaxCalls
    /\ existing' = existing \cup {fp_path}
    /\ fp_pc' = "ready"
    /\ fp_i' = 0
    /\ fp_path' = <<>>
    /\ UNCHANGED <<media_playlist, extVars, fp_directory, fp_ext, fp_returned>>
    /\ UNCHANGED <<selVars, sortVars, segVars, chainVars>>

PathNext == FilePathEnter \/ FilePathLoop \/ CreateFile

\* uris: "a/x.ts?t", "x_(1).m3u8", "<x>", "a/"
PathUris ==
    { <<"a", "/", "x", ".", "t", "s", "?", "t">>,
      <<"x", "_", "(", "1", ")", ".", "m", "3", "u", "8">>,
      <<"<", "x", ">">>, <<"a", "/">> }

\* the paths that may exist before the first call: the rendition's plain name,
\* its numbered names up to MaxSuffix, and the plain name of the rendition x
PathUniverse(mp, directory, ext) ==
    LET suffix == Suffix(mp.media_type)
        filename == Filename(mp.uri)
    IN  { PathJoin(directory, PlainFileName(suffix, filename, ext)),
          PathJoin(directory, PlainFileName(suffix, <<"x">>, ext)) }
        \cup { PathJoin(directory, NumberedFileName(suffix, filename, n, ext)) :
                    n \in 1..MaxSuffix }

PathInit ==
    /\ media_playlist \in
          { NamedPlaylist(u, t, None, "Hls", <<>>) : u \in PathUris, t \in {"Video", "Subtitles"} }
    /\ fp_directory \in OptionOf({<<"d">>})
    /\ fp_ext = <<"t", "s">>
    /\ existing \in SUBSET PathUniverse(media_playlist, fp_directory, fp_ext)
    /\ fp_pc = "ready" /\ fp_i = 0 /\ fp_path = <<>> /\ fp_returned = <<>>
    /\ ExtIdle
    /\ SelectIdle /\ SortIdle /\ ChainIdle
    /\ segment = <<>> /\ baseurl = <<>> /\ previous_byterange_end = 0
    /\ seg_op = "idle" /\ seg_result = <<>>

SpecPath == PathInit /\ [][PathNext]_vars

\* the name of spec section 4.5 for the rendition: vsd_<media type>_<stem>.<ext>
\* for n = 0 and vsd_<media type>_<stem>_(<n>).<ext> for n >= 1, in the directory
NamePrefix ==
    (IF fp_directory = None THEN <<>> ELSE fp_directory[1] \o <<"/">>)
        \o <<"v", "s", "d", "_">> \o Suffix(media_playlist.media_type) \o <<"_">>
        \o Filename(media_playlist.uri)

NameNumber(n) == IF n = 0 THEN <<>> ELSE <<"_", "(">> \o Decimal(n) \o <<")">>

NameOf(n) == NamePrefix \o NameNumber(n) \o <<".">> \o fp_ext

\* the smallest n >= 1 whose name is free
SmallestFree ==
    CHOOSE n \in 1..(Cardinality(existing) + 1) :
        /\ NameOf(n) \notin existing
        /\ \A k \in 1..(n - 1) : NameOf(k) \in existing

\* the paths on disk before the first call
ExistingAtStart == existing \ {fp_returned[k] : k \in 1..Len(fp_returned)}

\* C12: file_path terminates, the loop variable never passing the number of
\* existing paths, and the path it returns does not exist when it is called:
\* the plain name when that is free, otherwise the name _(n) for the smallest
\* n >= 1 that is free; when the caller creates each returned file before
\* calling again the returned paths are pairwise distinct, and they are the
\* plain name, _(1), _(2), ... when none of these existed.
C12_FilePathReturnsSmallestFree ==
    /\ (fp_pc = "loop") =>
            /\ fp_i <= Cardinality(existing)
            /\ \A n \in 0..(fp_i - 1) : NameOf(n) \in existing
    /\ (fp_pc = "returned") =>
            /\ fp_path \notin existing
            /\ fp_path = IF NameOf(0) \notin existing THEN NameOf(0) ELSE NameOf(SmallestFree)
    /\ \A j, k \in 1..Len(fp_returned) : j # k => fp_returned[j] # fp_returned[k]
    /\ (\A n \in 0..Len(fp_returned) : NameOf(n) \notin ExistingAtStart) =>
            \A k \in 1..Len(fp_returned) : fp_returned[k] = NameOf(k - 1)

\* three calls in a directory returned the plain name, then _(1), then _(2)
C12_Witness ==
    /\ fp_pc = "returned"
    /\ fp_directory # None
    /\ fp_returned = <<NameOf(0), NameOf(1), NameOf(2)>>

\* ---------------------------------------------------------------------------
\* sort_streams applied twice
\* ---------------------------------------------------------------------------

\* C13: sort_streams applied to the playlist sort_streams returned, with the
\* same preferred languages, returns the renditions in the same order.
C13_SortIsIdempotent ==
    sort_pc = "resorted" => resort_output = sort_output

\* a playlist that the first call reordered and that holds two subtitle
\* renditions was ranked a second time
C13_Witness ==
    /\ sort_pc = "resorted"
    /\ sort_output # sort_input
    /\ Len(Filter(sort_input, IsSubtitles)) >= 2
    /\ resort_output = sort_output

\* ---------------------------------------------------------------------------
\* select_streams: the interactive mapping against the scripted one
\* ---------------------------------------------------------------------------

InteractiveRun == ~skip_prompts /\ ~raw_prompts

\* the uris displayed at the positions of the answer, separators counted
AnswerUris == [k \in 1..Len(answer) |-> At(choices_with_default, answer[k]).stream]

\* the index a separator-free numbering from 1 gives to the choice at position p
SeparatorFree(p) == Cardinality({q \in 0..p : ~At(choices_with_default, q).sep})

\* what picking the choices with the given separator-free indices, in that
\* order, stands for: video and audio picks first, subtitle picks second
PickedBy(indices) ==
    LET choices == Filter(choices_with_default, IsChoice)
        uris == [k \in 1..Len(indices) |-> choices[indices[k]].stream]
    IN  <<Filter(uris, IsMediaUri), Filter(uris, IsSubtitleUri)>>

\* the typed indices ascend
TypedAscending == \A j, k \in 1..Len(stdin) : j < k => stdin[j].val < stdin[k].val

\* C14: in interactive mode every answer, a set of positions of the full
\* choice list in ascending order with the video separator at position 0, is
\* mapped to the renditions displayed at these positions, video and audio
\* picks in the first sequence and subtitle picks in the second; this is the
\* result the scripted mode returns when the same renditions are typed in the
\* same order by their separator-free indices from 1.
C14_InteractiveMatchesScripted ==
    /\ (InteractiveRun /\ pc \in {"done", "panic"} /\ input_read) =>
            /\ pc = "done"
            /\ Uris(selected_streams) = Filter(AnswerUris, IsMediaUri)
            /\ Uris(selected_subtitle_streams) = Filter(AnswerUris, IsSubtitleUri)
            /\ <<Uris(selected_streams), Uris(selected_subtitle_streams)>>
                   = PickedBy([k \in 1..Len(answer) |-> SeparatorFree(answer[k])])
    /\ (RawRun /\ pc \in {"done", "panic"} /\ input_read /\ TypedDistinctDisplayed
            /\ TypedAscending) =>
            /\ pc = "done"
            /\ <<Uris(selected_streams), Uris(selected_subtitle_streams)>>
                   = PickedBy([k \in 1..Len(stdin) |-> stdin[k].val])

\* an interactive run returned the second video, the second audio and a
\* subtitle rendition
C14_Witness ==
    /\ InteractiveRun /\ pc = "done"
    /\ Len(video_streams) = 1 /\ Len(audio_streams) = 1
    /\ Len(answer) = 3
    /\ answer[1] = 2
    /\ SeparatorFree(answer[2]) = 4
    /\ Len(selected_streams) = 2 /\ Len(selected_subtitle_streams) = 1

\* ---------------------------------------------------------------------------
\* select_streams: the defaults
\* ---------------------------------------------------------------------------

\* the choice list is built and the default index lies within the video group
DefaultWithinVideoGroup ==
    /\ choices_with_default # <<>>
    /\ HasVideo
    /\ IsSome(default_video_stream_index)
    /\ Unwrap(default_video_stream_index) < Len(Filter(streams, IsVideo))

\* positions of choices_with_default flagged as default (0-based)
FlaggedPositions ==
    {p \in 0..(Len(choices_with_default) - 1) : At(choices_with_default, p).selected}

\* the first rendition of a group, if any
FirstIfAny(v) == IF Len(v) > 0 THEN <<v[1]>> ELSE <<>>

\* nothing is asked, or the line read is blank
DefaultsStand == skip_prompts \/ (raw_prompts /\ stdin = <<>>)

\* C15: when the default video index lies within a non-empty video group, the
\* flagged choices are exactly the video choice at the default index, the
\* first audio choice if any and the first subtitle choice if any; with
\* skip_prompts, or with raw_prompts and a blank line, select_streams returns
\* [default video rendition, first audio rendition if any] and
\* [first subtitle rendition if any].
C15_DefaultsFlaggedAndReturned ==
    DefaultWithinVideoGroup =>
        LET vs == Filter(streams, IsVideo)
            as == Filter(streams, IsAudio)
            ss == Filter(streams, IsSubtitles)
            d == Unwrap(default_video_stream_index)
        IN  /\ FlaggedPositions =
                    {1 + d} \cup (IF Len(as) > 0 THEN {Len(vs) + 2} ELSE {})
                            \cup (IF Len(ss) > 0 THEN {Len(vs) + Len(as) + 3} ELSE {})
            /\ (DefaultsStand /\ pc \in {"done", "panic"}) =>
                    /\ pc = "done"
                    /\ selected_streams = <<vs[d + 1]>> \o FirstIfAny(as)
                    /\ selected_subtitle_streams = FirstIfAny(ss)

\* with skip_prompts and the lowest quality, a playlist of two video, two audio
\* and one subtitle rendition returned the second video rendition
C15_Witness ==
    /\ skip_prompts /\ pc = "done"
    /\ default_video_stream_index = Some(1)
    /\ Len(Filter(streams, IsAudio)) = 2
    /\ Len(selected_streams) = 2
    /\ selected_streams[1] = Filter(streams, IsVideo)[2]
    /\ Len(selected_subtitle_streams) = 1

\* ---------------------------------------------------------------------------
\* seg_range along the segments of one resource
\* ---------------------------------------------------------------------------

\* most segments of the resource
MaxChain == 3

\* greatest length of a byte range of the resource
MaxRangeLength == 3

\* seg_range on the next segment, with the cursor it returned for the one
\* before; a segment without a byte range leaves the cursor alone, and a panic
\* ends the run
ChainSegRange ==
    /\ chain_pos < Len(chain_segments)
    /\ \E r \in seg_range(chain_segments[chain_pos + 1], previous_byterange_end) :
            /\ seg_result' = r
            /\ CASE r.kind = "Some" ->
                        /\ requested' = Append(requested, [start |-> r.header[2],
                                                           end |-> r.header[4]])
                        /\ previous_byterange_end' = r.end
                        /\ chain_pos' = chain_pos + 1
                 [] r.kind = "None" ->
                        /\ chain_pos' = chain_pos + 1
                        /\ UNCHANGED <<requested, previous_byterange_end>>
                 [] r.kind = "Panic" ->
                        /\ chain_pos' = Len(chain_segments)
                        /\ UNCHANGED <<requested, previous_byterange_end>>
    /\ seg_op' = "seg_range"
    /\ UNCHANGED <<segment, baseurl, chain_segments>>
    /\ UNCHANGED <<selVars, sortVars, nameVars>>

ChainNext == ChainSegRange

\* byte ranges of length 1..MaxRangeLength whose offset is absent or 0
ChainByteRanges == {ByteRange(l, o) : l \in 1..MaxRangeLength, o \in {None, Some(0)}}

\* the first call gets the cursor 0
ChainInit ==
    /\ \E brs \in SeqsUpTo(ChainByteRanges, MaxChain) :
            chain_segments =
                [k \in 1..Len(brs) |-> Segment(PlainUri(k), Some(brs[k]), None, None)]
    /\ chain_pos = 0
    /\ requested = <<>>
    /\ previous_byterange_end = 0
    /\ segment = <<>> /\ baseurl = 1
    /\ seg_op = "ready" /\ seg_result = NoRange
    /\ SelectIdle /\ SortIdle /\ NameIdle

SpecChain == ChainInit /\ [][ChainNext]_vars

\* every byte range of the resource has no offset
OffsetsAbsent ==
    \A k \in 1..Len(chain_segments) : chain_segments[k].byte_range[1].offset = None

\* C16: when each call of seg_range gets the cursor the call before returned,
\* the first one the cursor 0, and every byte range has no offset and a
\* length of at least 1, the first range starts at byte 0 and every later
\* range starts at the byte after the last byte of the range before it.
C16_ChainedRangesAreContiguous ==
    OffsetsAbsent =>
        /\ (Len(requested) >= 1) => requested[1].start = 0
        /\ \A k \in 2..Len(requested) : requested[k].start = requested[k - 1].end + 1

====
